---- MODULE Spec2Model ----
(***************************************************************************)
(* A model of text_to_pdf.py: the command-line entry point, the batch      *)
(* converter, the merge composer and the two string helpers, with the      *)
(* external word-processing engine (COM automation) as an environment      *)
(* whose every call may succeed or raise.                                  *)
(*                                                                         *)
(* A filename is a sequence of one-character strings.  The alphabet is     *)
(* ASCII: letters, digits, "_", ".", " " and "-".  On it str.isdigit and   *)
(* the class \d of re agree, and \w is the letters, digits and "_".        *)
(*                                                                         *)
(* The recursive helpers are functions rather than operators, so that      *)
(* their arguments are evaluated once, also inside ENABLED.                *)
(***************************************************************************)
EXTENDS Integers, Sequences, FiniteSets, TLC

\* ------------------------------------------------------------ characters

LowerSeq ==
  <<"a","b","c","d","e","f","g","h","i","j","k","l","m",
    "n","o","p","q","r","s","t","u","v","w","x","y","z">>

UpperSeq ==
  <<"A","B","C","D","E","F","G","H","I","J","K","L","M",
    "N","O","P","Q","R","S","T","U","V","W","X","Y","Z">>

DigitSeq ==
  <<"0","1","2","3","4","5","6","7","8","9">>

Range(s) ==
  { s[k] : k \in DOMAIN s }

IndexOf(c, s) ==
  CHOOSE k \in DOMAIN s : s[k] = c

\* the alphabet of the file names
Chars ==
  Range(LowerSeq) \cup Range(UpperSeq) \cup Range(DigitSeq) \cup { "_", ".", " ", "-" }

\* str.isdigit() of one character
IsDigitChar(c) ==
  c \in Range(DigitSeq)

IsLetterChar(c) ==
  c \in Range(LowerSeq) \cup Range(UpperSeq)

\* the class \w of the re module: letters, digits and the underscore
IsWordChar(c) ==
  IsLetterChar(c) \/ IsDigitChar(c) \/ c = "_"

\* the code point of a character: the order str comparison uses
Ord(c) ==
  IF IsDigitChar(c) THEN 47 + IndexOf(c, DigitSeq)
  ELSE IF c \in Range(UpperSeq) THEN 64 + IndexOf(c, UpperSeq)
  ELSE IF c \in Range(LowerSeq) THEN 96 + IndexOf(c, LowerSeq)
  ELSE IF c = " " THEN 32
  ELSE IF c = "-" THEN 45
  ELSE IF c = "." THEN 46
  ELSE 95

\* str.lower()
LowerChar(c) ==
  IF c \in Range(UpperSeq) THEN LowerSeq[IndexOf(c, UpperSeq)] ELSE c

Lower(s) ==
  [k \in DOMAIN s |-> LowerChar(s[k])]

\* str.isdigit(): non-empty and every character a digit
IsDigitStr(s) ==
  Len(s) > 0 /\ \A k \in DOMAIN s : IsDigitChar(s[k])

\* str.endswith(suffix)
EndsWith(s, suffix) ==
  /\ Len(s) >= Len(suffix)
  /\ SubSeq(s, Len(s) - Len(suffix) + 1, Len(s)) = suffix

\* str < str: lexicographic by code point, a proper prefix is smaller
StrLess[a \in Seq(Chars), b \in Seq(Chars)] ==
  IF b = <<>> THEN FALSE
  ELSE IF a = <<>> THEN TRUE
  ELSE IF Ord(Head(a)) # Ord(Head(b)) THEN Ord(Head(a)) < Ord(Head(b))
  ELSE StrLess[Tail(a), Tail(b)]

\* int(s) of a digit run
IntOf[s \in Seq(Chars)] ==
  IF s = <<>> THEN 0
  ELSE 10 * IntOf[SubSeq(s, 1, Len(s) - 1)] + (IndexOf(s[Len(s)], DigitSeq) - 1)

\* --------------------------------------------------------- natural_sort_key

\* the length of the longest prefix of s whose characters all (dig = TRUE) or
\* none (dig = FALSE) are digits
RunLen[s \in Seq(Chars), dig \in BOOLEAN] ==
  IF s = <<>> \/ IsDigitChar(Head(s)) # dig THEN 0
  ELSE 1 + RunLen[Tail(s), dig]

\* re.split(r'(\d+)', s): the text between the digit runs and, because of the
\* capturing group, the digit runs themselves; it always starts and ends with
\* a (possibly empty) piece of text
ReSplit[s \in Seq(Chars)] ==
  LET n == RunLen[s, FALSE]
      rest == SubSeq(s, n + 1, Len(s))
      d == RunLen[rest, TRUE]
  IN  IF rest = <<>> THEN << s >>
      ELSE << SubSeq(s, 1, n), SubSeq(rest, 1, d) >>
             \o ReSplit[SubSeq(rest, d + 1, Len(rest))]

\* a key that keeps the digit runs as text
KeyToken_Text(c) ==
  [isInt |-> FALSE, n |-> 0, s |-> Lower(c)]

\* one element of the key: int(c) if c.isdigit() else c.lower()
KeyToken(c) ==
  IF IsDigitStr(c) THEN [isInt |-> TRUE, n |-> IntOf[c], s |-> <<>>]
  ELSE [isInt |-> FALSE, n |-> 0, s |-> Lower(c)]

\* a key built from the non-empty pieces of the split only
natural_sort_key_NoEmptyPieces(filename) ==
  LET parts == SelectSeq(ReSplit[filename], LAMBDA c : c # <<>>)
  IN  [k \in DOMAIN parts |-> KeyToken(parts[k])]

natural_sort_key(filename) ==
  LET parts == ReSplit[filename]
  IN  [k \in DOMAIN parts |-> KeyToken(parts[k])]

\* the elements and the keys
Tokens ==
  [isInt : BOOLEAN, n : Nat, s : Seq(Chars)]

\* the order of two key elements.  Elements at the same position of two keys
\* are both text or both integers (ReSplit alternates), so the mixed case,
\* a TypeError in Python, does not arise.
TokenLess(a, b) ==
  IF a.isInt /\ b.isInt THEN a.n < b.n
  ELSE IF ~a.isInt /\ ~b.isInt THEN StrLess[a.s, b.s]
  ELSE FALSE

\* list < list: the first differing position decides, a proper prefix is smaller
KeyLess[a \in Seq(Tokens), b \in Seq(Tokens)] ==
  IF b = <<>> THEN FALSE
  ELSE IF a = <<>> THEN TRUE
  ELSE IF Head(a) # Head(b) THEN TokenLess(Head(a), Head(b))
  ELSE KeyLess[Tail(a), Tail(b)]

\* list.sort(key=natural_sort_key): a stable sort that compares keys with <
NameBefore(x, y) ==
  KeyLess[natural_sort_key(x), natural_sort_key(y)]

\* x put into a sorted list, behind the names that are not greater
InsertSorted[x \in Seq(Chars), sorted \in Seq(Seq(Chars))] ==
  IF sorted = <<>> THEN << x >>
  ELSE IF NameBefore(x, Head(sorted)) THEN << x >> \o sorted
  ELSE << Head(sorted) >> \o InsertSorted[x, Tail(sorted)]

SortNatural[s \in Seq(Seq(Chars))] ==
  IF s = <<>> THEN <<>>
  ELSE InsertSorted[s[Len(s)], SortNatural[SubSeq(s, 1, Len(s) - 1)]]


\* ------------------------------------------------- os.path.splitext, sanitize

\* the position of the last "." of p, 0 if there is none (str.rfind)
LastDot(p) ==
  IF \E k \in DOMAIN p : p[k] = "."
  THEN CHOOSE k \in DOMAIN p : p[k] = "." /\ \A j \in DOMAIN p : j > k => p[j] # "."
  ELSE 0

\* os.path.splitext(p)[0] of a name without directory separators: the name up
\* to its last dot, unless only dots precede that dot (leading dots are not
\* an extension) or there is no dot
SplitextRoot(p) ==
  LET d == LastDot(p)
  IN  IF d > 0 /\ \E k \in 1..(d - 1) : p[k] # "."
      THEN SubSeq(p, 1, d - 1)
      ELSE p

\* re.sub(r'\W', '_', name)
SubNonWord(name) ==
  [k \in DOMAIN name |-> IF IsWordChar(name[k]) THEN name[k] ELSE "_"]

\* str(n) for n >= 0
DecimalStr[n \in Nat] ==
  IF n < 10 THEN << DigitSeq[n + 1] >>
  ELSE DecimalStr[n \div 10] \o << DigitSeq[(n % 10) + 1] >>

\* f"{index:02d}": at least two digits, zero-padded
Format02d(index) ==
  IF index < 10 THEN << "0" >> \o DecimalStr[index] ELSE DecimalStr[index]

\* Word's limit on the length of a bookmark name, bookmark_name[:40]
MaxBookmarkLen ==
  40

Truncate(s, n) ==
  SubSeq(s, 1, IF Len(s) < n THEN Len(s) ELSE n)

\* a bookmark name without the index
sanitize_bookmark_name_NoIndex(filename, index) ==
  Truncate(<< "B", "_" >> \o SubNonWord(SplitextRoot(filename)), MaxBookmarkLen)

sanitize_bookmark_name(filename, index) ==
  LET name == SplitextRoot(filename)
      clean_name == SubNonWord(name)
      bookmark_name == << "B" >> \o Format02d(index) \o << "_" >> \o clean_name
  IN  Truncate(bookmark_name, MaxBookmarkLen)

\* ------------------------------------------------------------- file names

N_unit1_txt ==
  <<"u","n","i","t","1",".","t","x","t">>

N_unit2_txt ==
  <<"u","n","i","t","2",".","t","x","t">>

N_unit10_txt ==
  <<"u","n","i","t","1","0",".","t","x","t">>

N_unit01_txt ==
  <<"u","n","i","t","0","1",".","t","x","t">>

N_unit1_DOCX ==
  <<"u","n","i","t","1",".","D","O","C","X">>

N_unit1_pdf ==
  <<"u","n","i","t","1",".","p","d","f">>

N_a_txt ==
  <<"a",".","t","x","t">>

N_a_docx ==
  <<"a",".","d","o","c","x">>

N_readme ==
  <<"r","e","a","d","m","e">>

\* a name whose stem alone is longer than a bookmark may be
LongStemLen ==
  42

N_long_txt ==
  [k \in 1..LongStemLen |-> IF k % 7 = 0 THEN " " ELSE "x"] \o <<".","t","x","t">>

\* the qualifying extensions, valid_extensions
valid_extensions ==
  { <<".","d","o","c">>, <<".","d","o","c","x">>, <<".","t","x","t">> }

\* a filter that also takes the exported documents
Qualifies_AlsoPdf(f) ==
  \E e \in valid_extensions \cup { << ".", "p", "d", "f" >> } : EndsWith(Lower(f), e)

\* f.lower().endswith(valid_extensions)
Qualifies(f) ==
  \E e \in valid_extensions : EndsWith(Lower(f), e)

\* [f for f in listing if f.lower().endswith(valid_extensions)]
FilterQualifying[l \in Seq(Seq(Chars))] ==
  IF l = <<>> THEN <<>>
  ELSE (IF Qualifies(Head(l)) THEN << Head(l) >> ELSE <<>>) \o FilterQualifying[Tail(l)]

\* the qualifying names in the order of the listing
CollectFiles_Unsorted(listing) ==
  FilterQualifying[listing]

\* the qualifying names of a directory listing, sorted
CollectFiles(listing) ==
  SortNatural[FilterQualifying[listing]]

\* ------------------------------------------------------------------ bounds

\* the most entries a directory listing holds
MaxFiles ==
  3

\* the most entries an --order list holds
MaxPlan ==
  3

\* the names a directory may hold
DirPool ==
  { N_unit1_txt, N_unit2_txt, N_unit10_txt, N_unit01_txt, N_unit1_DOCX, N_unit1_pdf }

\* the names an --order list may hold
OrderPool ==
  { N_a_txt, N_a_docx, N_readme, N_long_txt }

\* the sequences of at most n distinct elements of S, in every order
DistinctSeqs(S, n) ==
  { q \in UNION { [1..k -> S] : k \in 0..n } :
      \A a, b \in DOMAIN q : a # b => q[a] # q[b] }

\* the sequences of 1 to n elements of S
SeqsUpTo(S, n) ==
  UNION { [1..k -> S] : k \in 1..n }

\* ------------------------------------------------------------------- state

VARIABLES
  mode,          \* "batch" or "merge": args.merge
  hasOrder,      \* whether --order was given
  order,         \* args.order
  folderExists,  \* whether args.folder exists
  listing,       \* what os.listdir(args.folder) returns
  onDisk,        \* the names for which os.path.exists holds
  pc,            \* the position of the program
  files,         \* files (batch) or file_paths (merge)
  idx,           \* the position of the loop in files, from 1
  word_app,      \* whether word_app holds a session (is not None)
  openDocs,      \* the documents open in the engine: 0 the container, k the k-th file
  ops,           \* the calls made on the engine, in order, with their outcome
  out,           \* the lines printed
  exc,           \* whether an exception left the program uncaught
  keyArg,        \* the filename natural_sort_key is called with, on its own
  keyResult      \* what that call returned

vars ==
  << mode, hasOrder, order, folderExists, listing, onDisk, pc, files, idx,
     word_app, openDocs, ops, out, exc, keyArg, keyResult >>

\* the call of natural_sort_key on its own, outside a run of the program
keyVars ==
  << keyArg, keyResult >>

inputs ==
  << mode, hasOrder, order, folderExists, listing, onDisk >>

Op(name, arg, ok) ==
  [op |-> name, arg |-> arg, ok |-> ok]

Line(msg, arg) ==
  [msg |-> msg, arg |-> arg]

NoArg ==
  <<>>

Init ==
  /\ mode \in { "batch", "merge" }
  /\ hasOrder \in BOOLEAN
  /\ IF mode = "merge" /\ hasOrder
     THEN /\ order \in SeqsUpTo(OrderPool, MaxPlan)
          /\ onDisk \in SUBSET Range(order)
          /\ folderExists = TRUE
          /\ listing = <<>>
     ELSE /\ hasOrder = FALSE
          /\ order = <<>>
          /\ folderExists \in BOOLEAN
          /\ listing \in DistinctSeqs(DirPool, MaxFiles)
          /\ folderExists = FALSE => listing = <<>>
          /\ onDisk = Range(listing)
  /\ pc = "main"
  /\ files = <<>>
  /\ idx = 0
  /\ word_app = FALSE
  /\ openDocs = {}
  /\ ops = <<>>
  /\ out = <<>>
  /\ exc = FALSE
  /\ keyArg = <<>>
  /\ keyResult = <<>>

\* ------------------------------------------------------------ entry point

\* the lines " -> <name>" printed before a merge
OrderLines(fs) ==
  [k \in DOMAIN fs |-> Line("->", fs[k])]

\* --merge --order: the plan is the list as given
MainMergeOrder ==
  /\ pc = "main" /\ mode = "merge" /\ hasOrder
  /\ files' = order
  /\ out' = out \o << Line("Processing files in this order:", NoArg) >> \o OrderLines(order)
  /\ pc' = "m_create"
  /\ UNCHANGED << inputs, keyVars, idx, word_app, openDocs, ops, exc >>

\* the merge branch without the test for an empty plan
MainMergeDir_NoEmptyTest ==
  /\ pc = "main" /\ mode = "merge" /\ ~hasOrder
  /\ IF ~folderExists
     THEN /\ exc' = TRUE
          /\ pc' = "done"
          /\ UNCHANGED << files, out >>
     ELSE LET files_to_process == CollectFiles(listing)
          IN  /\ files' = files_to_process
              /\ exc' = exc
              /\ out' = out \o << Line("Processing files in this order:", NoArg) >>
                             \o OrderLines(files_to_process)
              /\ pc' = "m_create"
  /\ UNCHANGED << inputs, keyVars, idx, word_app, openDocs, ops >>

\* --merge without --order: the plan is the folder's qualifying files, sorted;
\* os.listdir of a folder that does not exist raises, and nothing catches it
MainMergeDir ==
  /\ pc = "main" /\ mode = "merge" /\ ~hasOrder
  /\ IF ~folderExists
     THEN /\ exc' = TRUE
          /\ pc' = "done"
          /\ UNCHANGED << files, out >>
     ELSE LET files_to_process == CollectFiles(listing)
          IN  /\ files' = files_to_process
              /\ exc' = exc
              /\ IF files_to_process = <<>>
                 THEN /\ out' = Append(out, Line("No files found to merge.", NoArg))
                      /\ pc' = "done"
                 ELSE /\ out' = out \o << Line("Processing files in this order:", NoArg) >>
                                    \o OrderLines(files_to_process)
                      /\ pc' = "m_create"
  /\ UNCHANGED << inputs, keyVars, idx, word_app, openDocs, ops >>

\* batch_convert_to_pdf without the os.path.exists test at its head
MainBatch_NoFolderCheck ==
  /\ pc = "main" /\ mode = "batch"
  /\ out' = out
  /\ pc' = "b_create"
  /\ UNCHANGED << inputs, keyVars, files, idx, word_app, openDocs, ops, exc >>

\* no --merge: batch_convert_to_pdf(args.folder), up to the try block
MainBatch ==
  /\ pc = "main" /\ mode = "batch"
  /\ IF ~folderExists
     THEN /\ out' = Append(out, Line("Error: Folder not found.", NoArg))
          /\ pc' = "done"
     ELSE /\ out' = out
          /\ pc' = "b_create"
  /\ UNCHANGED << inputs, keyVars, files, idx, word_app, openDocs, ops, exc >>

\* ------------------------------------------------------ batch_convert_to_pdf

\* an output name that keeps the extension of the input: <name>.pdf
OutputName_KeepExtension(filename) ==
  filename \o << ".", "p", "d", "f" >>

\* <stem>.pdf, the name exported to
OutputName(filename) ==
  SplitextRoot(filename) \o << ".", "p", "d", "f" >>

\* the except clause of the outer try, then on to the finally clause
BatchFail ==
  /\ out' = Append(out, Line("An error occurred initializing Word", NoArg))
  /\ pc' = "b_finally"

\* word_app = comtypes.client.CreateObject("Word.Application")
BatchCreateObject ==
  /\ pc = "b_create"
  /\ \E ok \in BOOLEAN :
       /\ ops' = Append(ops, Op("CreateObject", NoArg, ok))
       /\ IF ok
          THEN /\ word_app' = TRUE
               /\ pc' = "b_visible"
               /\ out' = out
          ELSE /\ word_app' = word_app
               /\ BatchFail
  /\ UNCHANGED << inputs, keyVars, files, idx, openDocs, exc >>

\* word_app.Visible = False
BatchSetVisible ==
  /\ pc = "b_visible"
  /\ \E ok \in BOOLEAN :
       /\ ops' = Append(ops, Op("Visible", NoArg, ok))
       /\ IF ok
          THEN /\ pc' = "b_collect"
               /\ out' = out
          ELSE BatchFail
  /\ UNCHANGED << inputs, keyVars, files, idx, word_app, openDocs, exc >>

\* the listing, filtered and sorted; the early return when it is empty
BatchCollect ==
  /\ pc = "b_collect"
  /\ files' = CollectFiles(listing)
  /\ IF files' = <<>>
     THEN /\ out' = Append(out, Line("No compatible documents found.", NoArg))
          /\ pc' = "b_finally"
          /\ idx' = idx
     ELSE /\ out' = Append(out, Line("Found files. Starting individual conversion...", NoArg))
          /\ pc' = "b_open"
          /\ idx' = 1
  /\ UNCHANGED << inputs, keyVars, word_app, openDocs, ops, exc >>

\* the next iteration of the for loop, or the end of the try block
BatchNextFile ==
  /\ idx' = idx + 1
  /\ pc' = IF idx < Len(files) THEN "b_open" ELSE "b_finally"

\* a failure of one file that ends the loop
BatchFileFailed_Abort ==
  /\ out' = Append(out, Line("Failed to convert", files[idx]))
  /\ idx' = idx + 1
  /\ pc' = "b_finally"

\* the except clause of the per-file try
BatchFileFailed ==
  /\ out' = Append(out, Line("Failed to convert", files[idx]))
  /\ BatchNextFile

\* doc = word_app.Documents.Open(input_path)
BatchOpen ==
  /\ pc = "b_open"
  /\ \E ok \in BOOLEAN :
       /\ ops' = Append(ops, Op("Open", files[idx], ok))
       /\ IF ok
          THEN /\ openDocs' = openDocs \cup { idx }
               /\ pc' = "b_save"
               /\ UNCHANGED << out, idx >>
          ELSE /\ openDocs' = openDocs
               /\ BatchFileFailed
  /\ UNCHANGED << inputs, keyVars, files, word_app, exc >>

\* doc.SaveAs(output_path, FileFormat=wdFormatPDF)
BatchSaveAs ==
  /\ pc = "b_save"
  /\ \E ok \in BOOLEAN :
       /\ ops' = Append(ops, Op("SaveAs", OutputName(files[idx]), ok))
       /\ IF ok
          THEN /\ out' = Append(out, Line("Converted", files[idx]))
               /\ pc' = "b_close"
               /\ idx' = idx
          ELSE BatchFileFailed
  /\ UNCHANGED << inputs, keyVars, files, word_app, openDocs, exc >>

\* doc.Close(SaveChanges=0)
BatchClose ==
  /\ pc = "b_close"
  /\ \E ok \in BOOLEAN :
       /\ ops' = Append(ops, Op("Close", files[idx], ok))
       /\ IF ok
          THEN /\ openDocs' = openDocs \ { idx }
               /\ out' = out
               /\ BatchNextFile
          ELSE /\ openDocs' = openDocs
               /\ BatchFileFailed
  /\ UNCHANGED << inputs, keyVars, files, word_app, exc >>

\* finally: if word_app: word_app.Quit(); an exception of Quit is not caught
BatchFinally ==
  /\ pc = "b_finally"
  /\ pc' = "done"
  /\ IF word_app
     THEN \E ok \in BOOLEAN :
            /\ ops' = Append(ops, Op("Quit", NoArg, ok))
            /\ exc' = ~ok
     ELSE UNCHANGED << ops, exc >>
  /\ UNCHANGED << inputs, keyVars, files, idx, word_app, openDocs, out >>

\* ------------------------------------------------------ merge_to_single_pdf

\* a handler that reports the failure and goes on to the export
MergeFail_ExportAnyway ==
  /\ out' = Append(out, Line("An error occurred during merging", NoArg))
  /\ pc' = "m_export"

\* the except clause, then on to the finally clause
MergeFail ==
  /\ out' = Append(out, Line("An error occurred during merging", NoArg))
  /\ pc' = "m_finally"

\* word_app = comtypes.client.CreateObject("Word.Application")
MergeCreateObject ==
  /\ pc = "m_create"
  /\ \E ok \in BOOLEAN :
       /\ ops' = Append(ops, Op("CreateObject", NoArg, ok))
       /\ IF ok
          THEN /\ word_app' = TRUE
               /\ pc' = "m_visible"
               /\ out' = out
          ELSE /\ word_app' = word_app
               /\ MergeFail
  /\ UNCHANGED << inputs, keyVars, files, idx, openDocs, exc >>

\* word_app.Visible = False
MergeSetVisible ==
  /\ pc = "m_visible"
  /\ \E ok \in BOOLEAN :
       /\ ops' = Append(ops, Op("Visible", NoArg, ok))
       /\ IF ok
          THEN /\ pc' = "m_add"
               /\ out' = out
          ELSE MergeFail
  /\ UNCHANGED << inputs, keyVars, files, idx, word_app, openDocs, exc >>

\* merged_doc = word_app.Documents.Add()
MergeAddDocument ==
  /\ pc = "m_add"
  /\ \E ok \in BOOLEAN :
       /\ ops' = Append(ops, Op("Add", NoArg, ok))
       /\ IF ok
          THEN /\ openDocs' = openDocs \cup { 0 }
               /\ pc' = "m_selection"
               /\ out' = out
          ELSE /\ openDocs' = openDocs
               /\ MergeFail
  /\ UNCHANGED << inputs, keyVars, files, idx, word_app, exc >>

\* where the loop goes from entry k: to entry k, or past the last one to the export
MergeAt(k) ==
  /\ idx' = k
  /\ pc' = IF k <= Len(files) THEN "m_file" ELSE "m_export"

\* selection = word_app.Selection, and the line printed before the loop
MergeSelection ==
  /\ pc = "m_selection"
  /\ \E ok \in BOOLEAN :
       /\ ops' = Append(ops, Op("Selection", NoArg, ok))
       /\ IF ok
          THEN /\ out' = Append(out, Line("Merging files into a single PDF with bookmarks...", NoArg))
               /\ MergeAt(1)
          ELSE /\ MergeFail
               /\ idx' = idx
  /\ UNCHANGED << inputs, keyVars, files, word_app, openDocs, exc >>

\* a missing entry that is taken as a failure of the merge
MergeSkipMissing_Raise ==
  /\ pc = "m_file"
  /\ files[idx] \notin onDisk
  /\ MergeFail
  /\ UNCHANGED << inputs, keyVars, files, idx, word_app, openDocs, ops, exc >>

\* a missing entry that ends the loop (break for continue)
MergeSkipMissing_Break ==
  /\ pc = "m_file"
  /\ files[idx] \notin onDisk
  /\ out' = Append(out, Line("Warning: File not found. Skipping.", files[idx]))
  /\ idx' = idx
  /\ pc' = "m_export"
  /\ UNCHANGED << inputs, keyVars, files, word_app, openDocs, ops, exc >>

\* if not os.path.exists(abs_path): the warning, and continue
MergeSkipMissing ==
  /\ pc = "m_file"
  /\ files[idx] \notin onDisk
  /\ out' = Append(out, Line("Warning: File not found. Skipping.", files[idx]))
  /\ MergeAt(idx + 1)
  /\ UNCHANGED << inputs, keyVars, files, word_app, openDocs, ops, exc >>

\* a bookmark numbered by the count of the bookmarks added before it
MergeBookmark_CountInserted ==
  /\ pc = "m_file"
  /\ files[idx] \in onDisk
  /\ \E ok \in BOOLEAN :
       /\ ops' = Append(ops, Op("Bookmark",
                    sanitize_bookmark_name(files[idx],
                       Len(SelectSeq(ops, LAMBDA o : o.op = "Bookmark"))), ok))
       /\ IF ok
          THEN /\ pc' = "m_insert"
               /\ out' = out
          ELSE MergeFail
  /\ UNCHANGED << inputs, keyVars, files, idx, word_app, openDocs, exc >>

\* b_name = sanitize_bookmark_name(filename, index);
\* merged_doc.Bookmarks.Add(Name=b_name, Range=selection.Range)
MergeBookmark ==
  /\ pc = "m_file"
  /\ files[idx] \in onDisk
  /\ \E ok \in BOOLEAN :
       /\ ops' = Append(ops, Op("Bookmark", sanitize_bookmark_name(files[idx], idx - 1), ok))
       /\ IF ok
          THEN /\ pc' = "m_insert"
               /\ out' = out
          ELSE MergeFail
  /\ UNCHANGED << inputs, keyVars, files, idx, word_app, openDocs, exc >>

\* if index < len(file_paths) - 1, with index counted from 0
BreakFollows(index, n) ==
  index < n - 1

\* selection.InsertFile(FileName=abs_path), and the test for the page break
MergeInsertFile ==
  /\ pc = "m_insert"
  /\ \E ok \in BOOLEAN :
       /\ ops' = Append(ops, Op("InsertFile", files[idx], ok))
       /\ IF ok
          THEN /\ out' = out
               /\ IF BreakFollows(idx - 1, Len(files))
                  THEN /\ pc' = "m_break"
                       /\ idx' = idx
                  ELSE MergeAt(idx + 1)
          ELSE /\ MergeFail
               /\ idx' = idx
  /\ UNCHANGED << inputs, keyVars, files, word_app, openDocs, exc >>

\* selection.InsertBreak(Type=wdPageBreak)
MergeInsertBreak ==
  /\ pc = "m_break"
  /\ \E ok \in BOOLEAN :
       /\ ops' = Append(ops, Op("InsertBreak", NoArg, ok))
       /\ IF ok
          THEN /\ out' = out
               /\ MergeAt(idx + 1)
          ELSE /\ MergeFail
               /\ idx' = idx
  /\ UNCHANGED << inputs, keyVars, files, word_app, openDocs, exc >>

\* the value handed to ExportAsFixedFormat as CreateBookmarks
wdExportCreateWordBookmarks == 2

\* an export that leaves CreateBookmarks at the engine's default, no bookmarks
MergeExport_DefaultOptions ==
  /\ pc = "m_export"
  /\ \E ok \in BOOLEAN :
       /\ ops' = Append(ops, Op("Export", << "0" >>, ok))
       /\ IF ok
          THEN /\ pc' = "m_close"
               /\ out' = out
          ELSE MergeFail
  /\ UNCHANGED << inputs, keyVars, files, idx, word_app, openDocs, exc >>

\* merged_doc.ExportAsFixedFormat(..., CreateBookmarks=wdExportCreateWordBookmarks);
\* the call is logged with its CreateBookmarks argument
MergeExport ==
  /\ pc = "m_export"
  /\ \E ok \in BOOLEAN :
       /\ ops' = Append(ops, Op("Export", DecimalStr[wdExportCreateWordBookmarks], ok))
       /\ IF ok
          THEN /\ pc' = "m_close"
               /\ out' = out
          ELSE MergeFail
  /\ UNCHANGED << inputs, keyVars, files, idx, word_app, openDocs, exc >>

\* merged_doc.Close(SaveChanges=0), and the line reporting success
MergeClose ==
  /\ pc = "m_close"
  /\ \E ok \in BOOLEAN :
       /\ ops' = Append(ops, Op("Close", NoArg, ok))
       /\ IF ok
          THEN /\ openDocs' = openDocs \ { 0 }
               /\ out' = Append(out, Line("Success! Merged PDF saved", NoArg))
               /\ pc' = "m_finally"
          ELSE /\ openDocs' = openDocs
               /\ MergeFail
  /\ UNCHANGED << inputs, keyVars, files, idx, word_app, exc >>

\* a Quit at the end of the try block instead of the finally clause
MergeFinally_QuitInTry ==
  /\ pc = "m_finally"
  /\ pc' = "done"
  /\ IF word_app /\ ~(\E k \in DOMAIN out : out[k].msg = "An error occurred during merging")
     THEN \E ok \in BOOLEAN :
            /\ ops' = Append(ops, Op("Quit", NoArg, ok))
            /\ exc' = ~ok
     ELSE UNCHANGED << ops, exc >>
  /\ UNCHANGED << inputs, keyVars, files, idx, word_app, openDocs, out >>

\* finally: if word_app: word_app.Quit(); an exception of Quit is not caught
MergeFinally ==
  /\ pc = "m_finally"
  /\ pc' = "done"
  /\ IF word_app
     THEN \E ok \in BOOLEAN :
            /\ ops' = Append(ops, Op("Quit", NoArg, ok))
            /\ exc' = ~ok
     ELSE UNCHANGED << ops, exc >>
  /\ UNCHANGED << inputs, keyVars, files, idx, word_app, openDocs, out >>

\* ------------------------------------------------------------ specification

Next ==
  \/ MainMergeOrder
  \/ MainMergeDir
  \/ MainBatch
  \/ BatchCreateObject
  \/ BatchSetVisible
  \/ BatchCollect
  \/ BatchOpen
  \/ BatchSaveAs
  \/ BatchClose
  \/ BatchFinally
  \/ MergeCreateObject
  \/ MergeSetVisible
  \/ MergeAddDocument
  \/ MergeSelection
  \/ MergeSkipMissing
  \/ MergeBookmark
  \/ MergeInsertFile
  \/ MergeInsertBreak
  \/ MergeExport
  \/ MergeClose
  \/ MergeFinally

Spec ==
  Init /\ [][Next]_vars

\* every call on the engine returns or raises (section 5: blocking, sequential
\* calls), so the program runs until it ends
FairSpec ==
  Spec /\ WF_vars(Next)

\* ------------------------------------------------- natural_sort_key, alone

\* the characters and the length of the filenames the function is called with
KeyChars == { "a", "B", "0", "1", "." }

MaxKeyLen == 3

KeyInputs ==
  UNION { [1..k -> KeyChars] : k \in 0..MaxKeyLen }

\* a filename, the empty one included, and no program around it
KeyInit ==
  /\ mode = "batch" /\ hasOrder = FALSE /\ order = <<>>
  /\ folderExists = FALSE /\ listing = <<>> /\ onDisk = {}
  /\ files = <<>> /\ idx = 0 /\ word_app = FALSE /\ openDocs = {}
  /\ ops = <<>> /\ out = <<>> /\ exc = FALSE
  /\ pc = "key_call"
  /\ keyArg \in KeyInputs
  /\ keyResult = <<>>

\* natural_sort_key(filename)
NaturalSortKeyCall ==
  /\ pc = "key_call"
  /\ keyResult' = natural_sort_key(keyArg)
  /\ pc' = "key_done"
  /\ UNCHANGED << inputs, keyArg, files, idx, word_app, openDocs, ops, out, exc >>

KeyNext == NaturalSortKeyCall

KeySpec == KeyInit /\ [][KeyNext]_vars

\* ------------------------------------------------- vocabulary of the claims

\* the calls of one kind made on the engine, in order
OpsNamed(name) ==
  SelectSeq(ops, LAMBDA o : o.op = name)

ArgsOf(s) ==
  [k \in DOMAIN s |-> s[k].arg]

Issued(name) ==
  \E k \in DOMAIN ops : ops[k].op = name

Succeeded(name) ==
  \E k \in DOMAIN ops : ops[k].op = name /\ ops[k].ok

Failed(name) ==
  \E k \in DOMAIN ops : ops[k].op = name /\ ~ops[k].ok

NoCallFailed ==
  \A k \in DOMAIN ops : ops[k].ok

LinesSaying(msg) ==
  SelectSeq(out, LAMBDA l : l.msg = msg)

Printed(msg) ==
  LinesSaying(msg) # <<>>

\* the positions of a plan whose entry exists on disk, in order
RECURSIVE ExistingPositions(_, _)
ExistingPositions(plan, k) ==
  IF k > Len(plan) THEN <<>>
  ELSE (IF plan[k] \in onDisk THEN << k >> ELSE <<>>) \o ExistingPositions(plan, k + 1)

\* a has the extension e, letter case aside
HasExtension(a, e) ==
  /\ Len(a) >= Len(e)
  /\ \A k \in 1..Len(e) :
       LET c == a[Len(a) - Len(e) + k]
       IN  c = e[k] \/ (c \in Range(UpperSeq) /\ Ord(c) + 32 = Ord(e[k]))

\* the names of a listing that end in .txt, .doc or .docx, letter case aside
QualifyingNames(l) ==
  { f \in Range(l) : \/ HasExtension(f, <<".","t","x","t">>)
                     \/ HasExtension(f, <<".","d","o","c">>)
                     \/ HasExtension(f, <<".","d","o","c","x">>) }

\* s holds each element of S once and nothing else
HoldsEachOnce(s, S) ==
  /\ Range(s) = S
  /\ Len(s) = Cardinality(S)

\* s is in non-decreasing order of the natural sort key
NaturallySorted(s) ==
  \A i \in 1..(Len(s) - 1) :
    ~KeyLess[natural_sort_key(s[i + 1]), natural_sort_key(s[i])]

\* ------------------------------------------------------------------ claims

\* C1: in batch_convert_to_pdf, when the existing source folder holds no file
\* with a qualifying extension, the run reports that no files were found and
\* the engine session is never started.  (The code starts the session before
\* it lists the folder: this statement is violated.)
C1_EmptyFolderStartsNoSession ==
  (mode = "batch" /\ folderExists /\ QualifyingNames(listing) = {})
    => /\ ~Succeeded("CreateObject")
       /\ pc = "done" => Printed("No compatible documents found.")

\* C2: every document opened in a session (a file of the batch, the container
\* of the merge) is closed before the session is quit, on every exit path:
\* here on the paths where every close that is called succeeds.  (The code
\* closes a document only where nothing raised before: this statement is
\* violated.)
C2_DocumentsClosedBeforeQuit ==
  (Issued("Quit") /\ ~Failed("Close") /\ ~Failed("Selection")) => openDocs = {}

\* C3: in both operations, once the engine session was started the run
\* eventually quits it, it quits it at most once, and no call is made on
\* the engine after the quit, on every exit path.
QuitCalls ==
  Len(OpsNamed("Quit"))

QuitIsLast ==
  \A k \in DOMAIN ops : ops[k].op = "Quit" => k = Len(ops)

C3_SessionQuitExactlyOnce ==
  /\ [](Succeeded("CreateObject") => <>(QuitCalls = 1))
  /\ [](QuitCalls <= 1 /\ QuitIsLast)
  /\ [](Issued("Quit") => Succeeded("CreateObject"))

\* a run that started the session, failed in the middle, and quit it
C3_Witness ==
  /\ pc = "done"
  /\ Succeeded("CreateObject")
  /\ QuitCalls = 1
  /\ Failed("InsertFile") \/ Failed("SaveAs") \/ Failed("Visible")

\* C4: in batch_convert_to_pdf a failure to open or to export one file does
\* not abort the batch: once the files are collected, the run attempts to open
\* every qualifying file of the folder exactly once, in natural-sort order,
\* whatever failed before.
OpensAttempted ==
  ArgsOf(OpsNamed("Open"))

C4_EveryFileAttempted ==
  (mode = "batch" /\ pc = "done" /\ Succeeded("Visible"))
    => /\ HoldsEachOnce(OpensAttempted, QualifyingNames(listing))
       /\ NaturallySorted(OpensAttempted)

\* a batch of three files whose first open and a later export failed
C4_Witness ==
  /\ mode = "batch" /\ pc = "done"
  /\ Len(OpensAttempted) = 3
  /\ ~OpsNamed("Open")[1].ok
  /\ Failed("SaveAs")

\* C5: in merge_to_single_pdf, when entries of the list are missing on disk
\* and no engine call fails, the container is still exported, the bookmarks
\* and the contents inserted are those of the existing entries in list order,
\* and one warning is printed per missing entry.
MissingEntries ==
  SelectSeq(files, LAMBDA f : f \notin onDisk)

ExistingEntries ==
  SelectSeq(files, LAMBDA f : f \in onDisk)

ExpectedBookmarks ==
  LET pos == ExistingPositions(files, 1)
  IN  [k \in DOMAIN pos |-> sanitize_bookmark_name(files[pos[k]], pos[k] - 1)]

MergeRanWithoutFailure ==
  mode = "merge" /\ pc = "done" /\ files # <<>> /\ NoCallFailed

C5_MissingEntriesSkipped ==
  MergeRanWithoutFailure
    => /\ Len(OpsNamed("Export")) = 1
       /\ ArgsOf(OpsNamed("InsertFile")) = ExistingEntries
       /\ ArgsOf(OpsNamed("Bookmark")) = ExpectedBookmarks
       /\ ArgsOf(LinesSaying("Warning: File not found. Skipping.")) = MissingEntries
       /\ Printed("Success! Merged PDF saved")

\* a merge of three entries, the middle one missing
C5_Witness ==
  /\ MergeRanWithoutFailure
  /\ Len(files) = 3
  /\ files[1] \in onDisk /\ files[2] \notin onDisk /\ files[3] \in onDisk

\* C6: in merge_to_single_pdf a page break follows the content of every
\* inserted file except the last inserted one: there is one page break fewer
\* than inserted files, and the call before the export is never a page break,
\* also when the last entries of the list are missing.  (The code compares the
\* position with the length of the whole list: this statement is violated.)
C6_NoBreakAfterLastInserted ==
  (MergeRanWithoutFailure /\ Issued("InsertFile"))
    => /\ Len(OpsNamed("InsertBreak")) = Len(OpsNamed("InsertFile")) - 1
       /\ \A k \in DOMAIN ops :
            (k > 1 /\ ops[k].op = "Export") => ops[k - 1].op # "InsertBreak"

\* C7: the bookmark names of a merge plan are pairwise distinct, start with a
\* letter, hold only letters, digits and underscores and are at most 40
\* characters long, whatever the file names.
BookmarksAdded ==
  ArgsOf(OpsNamed("Bookmark"))

ValidBookmark(b) ==
  /\ Len(b) >= 1 /\ Len(b) <= 40
  /\ IsLetterChar(b[1])
  /\ \A k \in DOMAIN b : IsLetterChar(b[k]) \/ IsDigitChar(b[k]) \/ b[k] = "_"

C7_BookmarkNamesValidAndDistinct ==
  mode = "merge"
    => /\ \A k \in DOMAIN BookmarksAdded : ValidBookmark(BookmarksAdded[k])
       /\ \A i, j \in DOMAIN BookmarksAdded :
            i # j => BookmarksAdded[i] # BookmarksAdded[j]

\* a plan with two entries of the same stem and a name cut to 40 characters
C7_Witness ==
  /\ mode = "merge"
  /\ Len(BookmarksAdded) = 3
  /\ SplitextRoot(files[1]) = SplitextRoot(files[2]) /\ files[1] # files[2]
  /\ Len(files[3]) > 40 /\ Len(BookmarksAdded[3]) = 40

\* C8: without --order, the sequence given to merge_to_single_pdf is the
\* qualifying files of the folder (.txt, .doc, .docx, letter case aside), each
\* once, in non-decreasing order of natural_sort_key.
\* the call merge_to_single_pdf(files_to_process, output_full_path) of a run
\* without --order
MergePlanFromFolder ==
  mode = "merge" /\ ~hasOrder /\ pc = "m_create"

C8_FolderPlanSorted ==
  MergePlanFromFolder
    => /\ HoldsEachOnce(files, QualifyingNames(listing))
       /\ NaturallySorted(files)

\* a folder of three names, one of them no document, listed out of order
C8_Witness ==
  /\ MergePlanFromFolder
  /\ Len(listing) = 3 /\ Len(files) = 2
  /\ N_unit1_DOCX \in Range(files)
  /\ files[1] = listing[3]

\* C9: the plan taken from a folder is the same whatever order the directory
\* listing returns the names in, also when two names have equal keys.  (The
\* sort is stable and nothing orders names of equal keys: this statement is
\* violated.)
Relistings(l) ==
  { q \in DistinctSeqs(Range(l), Len(l)) : Len(q) = Len(l) }

C9_PlanIndependentOfListingOrder ==
  MergePlanFromFolder
    => \A l2 \in Relistings(listing) : CollectFiles(l2) = files

\* C10: of two file names that differ only in one digit run, sorting by
\* natural_sort_key places the one of smaller numeric value first, whatever
\* the number of digits or the padding; unit2, unit10, unit1 sorts to unit1,
\* unit2, unit10.
\* a and b are the same text around one digit run each, da and db digits long
DifferInDigitRun(a, b, p, da, db) ==
  /\ p + da <= Len(a) /\ p + db <= Len(b)
  /\ SubSeq(a, 1, p) = SubSeq(b, 1, p)
  /\ p > 0 => ~IsDigitChar(a[p])
  /\ IsDigitStr(SubSeq(a, p + 1, p + da))
  /\ IsDigitStr(SubSeq(b, p + 1, p + db))
  /\ SubSeq(a, p + da + 1, Len(a)) = SubSeq(b, p + db + 1, Len(b))
  /\ p + da < Len(a) => ~IsDigitChar(a[p + da + 1])

SmallerInDigitRun(a, b) ==
  \E p \in 0..Len(a), da \in 1..Len(a), db \in 1..Len(b) :
    /\ DifferInDigitRun(a, b, p, da, db)
    /\ IntOf[SubSeq(a, p + 1, p + da)] < IntOf[SubSeq(b, p + 1, p + db)]

\* the state in which the files were just collected and sorted
FilesSorted ==
  \/ mode = "batch" /\ pc = "b_open" /\ ~Issued("Open")
  \/ mode = "merge" /\ ~hasOrder /\ pc = "m_create"

C10_SmallerNumberFirst ==
  FilesSorted
    => /\ \A i, j \in DOMAIN files :
            SmallerInDigitRun(files[i], files[j]) => i < j
       /\ listing = << N_unit2_txt, N_unit10_txt, N_unit1_txt >>
            => files = << N_unit1_txt, N_unit2_txt, N_unit10_txt >>

\* the example of the claim, sorted
C10_Witness ==
  /\ FilesSorted
  /\ listing = << N_unit2_txt, N_unit10_txt, N_unit1_txt >>
  /\ files = << N_unit1_txt, N_unit2_txt, N_unit10_txt >>

\* ------------------------------------------------------------------------
\* C11. When the source folder does not exist, batch mode and merge mode
\* without --order both stop before any engine session is opened: no engine
\* start, no open, no insert and no export is ever issued.  Batch mode reports
\* the missing folder; merge mode ends in the exception of the listing.
SourceFolderMissing == ~hasOrder /\ ~folderExists

C11_MissingFolderNoEngineCall ==
  SourceFolderMissing =>
    /\ ops = <<>>
    /\ ~word_app
    /\ pc \in { "main", "done" }
    /\ pc = "done" =>
         IF mode = "batch"
         THEN Printed("Error: Folder not found.") /\ ~exc
         ELSE exc

\* a batch run and a merge run on a missing folder have both ended
C11_Witness ==
  /\ SourceFolderMissing
  /\ pc = "done"
  /\ mode = "merge" \/ Printed("Error: Folder not found.")

\* ------------------------------------------------------------------------
\* The status the interpreter exits with: 1 when an exception left the
\* program, 0 when the script ran to its end (no handler calls sys.exit).
ExitStatus == IF exc THEN 1 ELSE 0

\* C12. When the engine fails to start, in batch mode or in merge mode, the
\* process terminates with a non-zero exit status.
C12_EngineStartFailureExitsNonZero ==
  (pc = "done" /\ Failed("CreateObject")) => ExitStatus # 0

\* ------------------------------------------------------------------------
\* The documents a batch run has exported so far, in the order written.
PdfsWritten ==
  ArgsOf(SelectSeq(ops, LAMBDA o : o.op = "SaveAs" /\ o.ok))

\* The entries of the folder after the run: SaveAs writes into the source
\* folder itself, so each exported document is an entry of the next listing.
RECURSIVE WithEntries(_, _)
WithEntries(l, w) ==
  IF w = <<>> THEN l
  ELSE WithEntries(IF Head(w) \in Range(l) THEN l ELSE Append(l, Head(w)), Tail(w))

FolderAfterRun == WithEntries(listing, PdfsWritten)

OutputNames(fs) == { OutputName(fs[k]) : k \in DOMAIN fs }

\* C13. A second batch run on the same folder, whose source files did not
\* change and which now also holds the documents the first run exported,
\* collects none of those documents as an input and has the same set of
\* output file names as the first run.  The first run is one that got as far
\* as listing the folder.
BatchRunEnded == mode = "batch" /\ pc = "done" /\ Succeeded("Visible")

C13_SecondRunSameOutputs ==
  BatchRunEnded =>
    LET second == CollectFiles(FolderAfterRun)
    IN  /\ \A k \in DOMAIN second : ~EndsWith(Lower(second[k]), << ".", "p", "d", "f" >>)
        /\ Range(second) \cap (Range(PdfsWritten) \ Range(listing)) = {}
        /\ OutputNames(second) = OutputNames(files)

\* a run that exported two documents into a folder that held none of them
C13_Witness ==
  /\ BatchRunEnded
  /\ Len(PdfsWritten) >= 2
  /\ Range(PdfsWritten) \cap Range(listing) = {}
  /\ Len(FolderAfterRun) > Len(listing)

\* ------------------------------------------------------------------------
\* C14. The engine calls of a merge come in this order: one container
\* creation; then, for each existing file in list order, the bookmark
\* immediately before the insert of that file, and a page break only directly
\* after an insert; then one export with bookmark creation enabled, after
\* all inserts; then the close of the container.  No bookmark, insert or page
\* break follows the export.
ContentCalls == { "Bookmark", "InsertFile", "InsertBreak" }

\* the CreateBookmarks option of the engine that exports the Word bookmarks
\* (0: none, 1: headings, 2: Word bookmarks)
ExportWithWordBookmarks == << "2" >>

IsPrefix(s, t) ==
  Len(s) <= Len(t) /\ \A k \in DOMAIN s : s[k] = t[k]

C14_MergeCallOrder ==
  mode = "merge" =>
    /\ Len(OpsNamed("Add")) <= 1
    /\ Len(OpsNamed("Export")) <= 1
    /\ \A k \in DOMAIN ops :
         LET o == ops[k]
         IN  /\ o.op \in ContentCalls \cup { "Export", "Close" }
                  => \E j \in 1..(k - 1) : ops[j].op = "Add" /\ ops[j].ok
             /\ o.op = "InsertFile"
                  => ops[k - 1].op = "Bookmark" /\ ops[k - 1].ok
             /\ (o.op = "Bookmark" /\ k < Len(ops))
                  => IF o.ok THEN ops[k + 1].op = "InsertFile" ELSE ops[k + 1].op = "Quit"
             /\ o.op = "InsertBreak"
                  => ops[k - 1].op = "InsertFile" /\ ops[k - 1].ok
             /\ o.op = "Export"
                  => /\ o.arg = ExportWithWordBookmarks
                     /\ \A j \in DOMAIN ops : ops[j].op \in ContentCalls => j < k /\ ops[j].ok
                     /\ ArgsOf(OpsNamed("InsertFile")) = ExistingEntries
             /\ o.op = "Close"
                  => ops[k - 1].op = "Export" /\ ops[k - 1].ok
    /\ IsPrefix(ArgsOf(OpsNamed("InsertFile")), ExistingEntries)

\* a merge of three existing files: two page breaks, the export, the close
C14_Witness ==
  /\ mode = "merge" /\ pc = "done" /\ NoCallFailed
  /\ Len(OpsNamed("InsertFile")) = 3
  /\ Len(OpsNamed("InsertBreak")) = 2
  /\ Succeeded("Export") /\ Succeeded("Close")

\* ------------------------------------------------------------------------
\* C15. The first failure of a bookmark, insert, page-break or export call
\* aborts the merge: no engine call follows it but the quit of the session
\* (so no later file is inserted and nothing is exported after a failed
\* insert), success is not reported, and exactly one error line is printed.
AbortingCalls == { "Bookmark", "InsertFile", "InsertBreak", "Export" }

MergeErrorLines == LinesSaying("An error occurred during merging")

C15_FirstFailureAbortsMerge ==
  mode = "merge" =>
    /\ Len(MergeErrorLines) <= 1
    /\ \A k \in DOMAIN ops :
         (ops[k].op \in AbortingCalls /\ ~ops[k].ok)
           => /\ \A j \in (k + 1)..Len(ops) : ops[j].op = "Quit"
              /\ \A j \in 1..(k - 1) : ops[j].ok
              /\ ~Printed("Success! Merged PDF saved")
              /\ Len(MergeErrorLines) = 1
              /\ pc \in { "m_finally", "done" }

\* a merge whose second insert failed, ended: one file inserted, no export
C15_Witness ==
  /\ mode = "merge" /\ pc = "done"
  /\ Len(OpsNamed("InsertFile")) = 2
  /\ Succeeded("InsertFile") /\ Failed("InsertFile")
  /\ Len(files) = 3

\* ------------------------------------------------------------------------
\* C16. In merge mode without --order, when the folder holds no file with a
\* qualifying extension, the program reports that there are no files to
\* merge and ends: the merge operation is not called and no engine session
\* is opened.
NothingToMerge ==
  mode = "merge" /\ ~hasOrder /\ folderExists /\ QualifyingNames(listing) = {}

C16_NoFilesNoMerge ==
  NothingToMerge =>
    /\ ops = <<>>
    /\ ~word_app
    /\ pc \in { "main", "done" }
    /\ pc = "done" =>
         /\ out = << Line("No files found to merge.", NoArg) >>
         /\ ~exc

\* the run on a folder that holds an exported document only has ended
C16_Witness ==
  /\ NothingToMerge
  /\ listing = << N_unit1_pdf >>
  /\ pc = "done"

\* ------------------------------------------------------------------------
\* C17. In batch mode two inputs with the same stem and different extensions
\* are exported to the same path <stem>.pdf; the second export is made
\* whatever the first one left there, and when both exports succeed the
\* document at that path comes from the input that is later in natural-sort
\* order.
\* the SaveAs calls made for the input f: each follows the Open of f
ExportsOf(f) ==
  { k \in DOMAIN ops : ops[k].op = "SaveAs" /\ ops[k - 1].op = "Open" /\ ops[k - 1].arg = f }

\* the input whose export was the last one written to the path p
LastWriterOf(p) ==
  LET written == { k \in DOMAIN ops : ops[k].op = "SaveAs" /\ ops[k].ok /\ ops[k].arg = p }
      last == CHOOSE k \in written : \A j \in written : j <= k
  IN  ops[last - 1].arg

StemPdf(f) == SplitextRoot(f) \o << ".", "p", "d", "f" >>

C17_SameStemLastWriterWins ==
  (mode = "batch" /\ pc = "done") =>
    \A a, b \in Range(files) :
      (a # b /\ SplitextRoot(a) = SplitextRoot(b)
         /\ KeyLess[natural_sort_key(a), natural_sort_key(b)])
      => /\ \A k \in ExportsOf(a) \cup ExportsOf(b) : ops[k].arg = StemPdf(a)
         /\ Cardinality(ExportsOf(a)) <= 1 /\ Cardinality(ExportsOf(b)) <= 1
         /\ (\E k \in DOMAIN ops : ops[k] = Op("Open", b, TRUE)) => ExportsOf(b) # {}
         /\ ((\E k \in ExportsOf(a) : ops[k].ok) /\ (\E k \in ExportsOf(b) : ops[k].ok))
              => LastWriterOf(StemPdf(a)) = b

\* unit1.DOCX and unit1.txt both exported: unit1.pdf holds unit1.txt
C17_Witness ==
  /\ mode = "batch" /\ pc = "done"
  /\ \E k \in ExportsOf(N_unit1_DOCX) : ops[k].ok
  /\ \E k \in ExportsOf(N_unit1_txt) : ops[k].ok
  /\ LastWriterOf(StemPdf(N_unit1_txt)) = N_unit1_txt

\* ------------------------------------------------------------------------
\* The maximal digit runs of a name, by position.
DigitRunStarts(s) ==
  { i \in DOMAIN s : IsDigitChar(s[i]) /\ (i = 1 \/ ~IsDigitChar(s[i - 1])) }

DigitRunEnd(s, i) ==
  CHOOSE j \in i..Len(s) :
    /\ \A m \in i..j : IsDigitChar(s[m])
    /\ j = Len(s) \/ ~IsDigitChar(s[j + 1])

NthOf(S, n) ==
  CHOOSE x \in S : Cardinality({ y \in S : y < x }) = n - 1

TextToken(t) == [isInt |-> FALSE, n |-> 0, s |-> t]

IntToken(v) == [isInt |-> TRUE, n |-> v, s |-> <<>>]

\* key holds the pieces of name in order: the text before the first digit
\* run, then each digit run as its number followed by the text after it, all
\* text case-folded; a text piece is empty where nothing stands between two
\* runs or before the first or after the last one
AlternatesTextAndNumbers(name, key) ==
  LET starts == DigitRunStarts(name)
      r == Cardinality(starts)
      st(n) == NthOf(starts, n)
      en(n) == DigitRunEnd(name, st(n))
      from(n) == IF n = 0 THEN 1 ELSE en(n) + 1
      to(n) == IF n = r THEN Len(name) ELSE st(n + 1) - 1
  IN  /\ Len(key) = 2 * r + 1
      /\ \A n \in 0..r : key[2 * n + 1] = TextToken(Lower(SubSeq(name, from(n), to(n))))
      /\ \A n \in 1..r : key[2 * n] = IntToken(IntOf[SubSeq(name, st(n), en(n))])

KeyReturned == pc = "key_done"

\* C18. natural_sort_key returns a token sequence that alternates case-folded
\* non-digit substrings and digit runs converted to integers, and for the
\* empty filename it returns the empty sequence.
C18_KeyAlternatesEmptyForEmpty ==
  KeyReturned =>
    /\ AlternatesTextAndNumbers(keyArg, keyResult)
    /\ keyArg = <<>> => keyResult = <<>>

\* C18, amended. natural_sort_key returns a token sequence that alternates
\* case-folded non-digit substrings, possibly empty, and digit runs converted
\* to integers; it begins and ends with a text token, and for the empty
\* filename it returns the one-element sequence holding the empty string.
C18_KeyAlternatesFromText ==
  KeyReturned =>
    /\ AlternatesTextAndNumbers(keyArg, keyResult)
    /\ ~keyResult[1].isInt /\ ~keyResult[Len(keyResult)].isInt
    /\ keyArg = <<>> => keyResult = << TextToken(<<>>) >>

\* the key of the empty filename has been returned
C18_Witness ==
  /\ KeyReturned
  /\ keyArg = <<>>
  /\ keyResult = << TextToken(<<>>) >>

\* ------------------------------------------------------------------------
\* C19. A merge called with a non-empty list of which every entry is missing
\* opens a session, adds no bookmark, inserts no file and no page break,
\* exports the empty container, reports success and quits the session
\* (no engine call failing).
AllEntriesMissing ==
  mode = "merge" /\ files # <<>> /\ Range(files) \cap onDisk = {}

OpNames == [k \in DOMAIN ops |-> ops[k].op]

C19_AllMissingExportsEmptyContainer ==
  AllEntriesMissing =>
    /\ \A k \in DOMAIN ops : ops[k].op \notin { "Bookmark", "InsertFile", "InsertBreak" }
    /\ (pc = "done" /\ NoCallFailed) =>
         /\ OpNames = << "CreateObject", "Visible", "Add", "Selection",
                         "Export", "Close", "Quit" >>
         /\ Printed("Success! Merged PDF saved")
         /\ ~Printed("An error occurred during merging")
         /\ Len(LinesSaying("Warning: File not found. Skipping.")) = Len(files)
         /\ ~word_app \/ Issued("Quit")
         /\ openDocs = {}

\* a merge of two missing entries has ended with the success line
C19_Witness ==
  /\ AllEntriesMissing
  /\ Len(files) = 2
  /\ pc = "done" /\ NoCallFailed
  /\ Succeeded("Export")
  /\ Printed("Success! Merged PDF saved")

\* ------------------------------------------------------------------------
\* The index written into a bookmark name: the digits between the leading B
\* and the first underscore.
BookmarkIndex(b) ==
  LET u == CHOOSE k \in DOMAIN b : b[k] = "_" /\ \A j \in 1..(k - 1) : b[j] # "_"
  IN  IntOf[SubSeq(b, 2, u - 1)]

\* the entries before position p that are missing
SkippedBefore(p) ==
  { q \in 1..(p - 1) : files[q] \notin onDisk }

\* C20. The index in a bookmark name is the position of the file in the full
\* input sequence, counted from 0 and counting the entries skipped as
\* missing; the indices are strictly increasing in the order of insertion,
\* and each skipped entry leaves a gap in them.
BookmarkJustAdded ==
  mode = "merge" /\ ops # <<>> /\ ops[Len(ops)].op = "Bookmark"

C20_BookmarkIndexIsInputPosition ==
  BookmarkJustAdded =>
    LET bm == ArgsOf(OpsNamed("Bookmark"))
        pos == ExistingPositions(files, 1)
    IN  /\ Len(bm) <= Len(pos)
        /\ \A k \in DOMAIN bm :
             /\ BookmarkIndex(bm[k]) = pos[k] - 1
             /\ BookmarkIndex(bm[k]) = (k - 1) + Cardinality(SkippedBefore(pos[k]))
        /\ \A k \in 1..(Len(bm) - 1) : BookmarkIndex(bm[k]) < BookmarkIndex(bm[k + 1])

\* the second bookmark of a plan whose middle entry is missing carries index 2
C20_Witness ==
  /\ BookmarkJustAdded
  /\ Len(files) = 3 /\ files[2] \notin onDisk
  /\ Len(OpsNamed("Bookmark")) = 2
  /\ BookmarkIndex(ops[Len(ops)].arg) = 2

====
